---- MODULE Spec2Model ----
(***************************************************************************)
(* Model of src/script.js: the chat client's conversation state (messages, *)
(* userName), the submit handler of chatForm with its suspension points    *)
(* (await fetch, await resp.text(), await resp.json()) and the chat window *)
(* it renders into.                                                        *)
(*                                                                         *)
(* Text is a sequence of strings.  Text typed by the user is a sequence of *)
(* one-character strings, so that trim() and the name regular expression   *)
(* are computed character by character; a literal of the program is one    *)
(* element, and a template literal is the concatenation of its parts.      *)
(***************************************************************************)
EXTENDS Integers, Sequences, FiniteSets, TLC

(***************************************************************************)
(* Bounds of the model                                                     *)
(***************************************************************************)
\* number of submit events dispatched on chatForm in one behaviour
MaxSubmits == 2

(***************************************************************************)
(* Characters                                                              *)
(***************************************************************************)
UpperSeq == <<"A","B","C","D","E","F","G","H","I","J","K","L","M",
              "N","O","P","Q","R","S","T","U","V","W","X","Y","Z">>
LowerSeq == <<"a","b","c","d","e","f","g","h","i","j","k","l","m",
              "n","o","p","q","r","s","t","u","v","w","x","y","z">>
Upper == {UpperSeq[i] : i \in 1..26}
Lower == {LowerSeq[i] : i \in 1..26}
Digits == {"0","1","2","3","4","5","6","7","8","9"}
\* \w of the regular expression
WordChar == Upper \cup Lower \cup Digits \cup {"_"}
\* \s of the regular expression, and what String.prototype.trim strips
Whitespace == {" ", "\t", "\n"}

\* Canonicalize of a case-insensitive match: the upper-case form
ToUpperCase == [c \in Lower |-> UpperSeq[CHOOSE i \in 1..26 : LowerSeq[i] = c]]
Canonicalize(c) == IF c \in Lower THEN ToUpperCase[c] ELSE c

\* the value null of userName and of a failed match; a capture is never empty
NULL == <<>>

\* a fault of trim: nothing is stripped
trim_None(s) == s

(***************************************************************************)
(* String.prototype.trim                                                   *)
(***************************************************************************)
trim(s) ==
  LET keep == {i \in 1..Len(s) : s[i] \notin Whitespace}
  IN  IF keep = {} THEN <<>>
      ELSE LET lo == CHOOSE i \in keep : \A j \in keep : i <= j
               hi == CHOOSE i \in keep : \A j \in keep : j <= i
           IN  SubSeq(s, lo, hi)

(***************************************************************************)
(* /\b(?:my name is|i'm|i am)\s+([A-Z][a-z]+)\b/i                          *)
(***************************************************************************)
\* the flag i of the regular expression
IgnoreCase == TRUE

\* the alternatives of the non-capturing group, in the order they are tried
Phrases == << <<"m","y"," ","n","a","m","e"," ","i","s">>,
              <<"i","'","m">>,
              <<"i"," ","a","m">> >>

\* one character against a literal character
CharEq(c, l) == IF IgnoreCase THEN Canonicalize(c) = Canonicalize(l) ELSE c = l

\* one character against a character class
CharIn(c, class) ==
  IF IgnoreCase THEN \E k \in class : Canonicalize(c) = Canonicalize(k)
  ELSE c \in class

\* \b at position p (between s[p-1] and s[p])
WordBoundary(s, p) ==
  LET left  == p > 1 /\ s[p-1] \in WordChar
      right == p <= Len(s) /\ s[p] \in WordChar
  IN  left # right

\* the literal lit at position p
MatchLit(s, p, lit) ==
  /\ p + Len(lit) - 1 <= Len(s)
  /\ \A k \in 1..Len(lit) : CharEq(s[p + k - 1], lit[k])

\* \s+([A-Z][a-z]+)\b from position q: the pairs <<r, e>> where the capture
\* is s[r..e-1]
TailMatches(s, q) ==
  {re \in (q+1..Len(s)) \X (q+3..Len(s)+1) :
     /\ re[2] >= re[1] + 2
     /\ \A k \in q..re[1]-1 : s[k] \in Whitespace
     /\ CharIn(s[re[1]], Upper)
     /\ \A k \in re[1]+1..re[2]-1 : CharIn(s[k], Lower)
     /\ WordBoundary(s, re[2])}

\* greedy quantifiers: the longest \s+ first, then the longest [a-z]+
Greedy(ms) ==
  CHOOSE m \in ms : \A n \in ms :
     \/ n[1] < m[1]
     \/ n[1] = m[1] /\ n[2] <= m[2]

\* the capture of a match that starts at position p, or NULL
MatchAt(s, p) ==
  LET alts == {i \in 1..Len(Phrases) :
                 /\ MatchLit(s, p, Phrases[i])
                 /\ TailMatches(s, p + Len(Phrases[i])) # {}}
  IN  IF ~WordBoundary(s, p) \/ alts = {} THEN NULL
      ELSE LET i == CHOOSE a \in alts : \A b \in alts : a <= b
               m == Greedy(TailMatches(s, p + Len(Phrases[i])))
           IN  SubSeq(s, m[1], m[2] - 1)

\* text.match(...)[1]: the capture of the leftmost match, or NULL
nameMatch(s) ==
  LET ps == {p \in 1..Len(s) : MatchAt(s, p) # NULL}
  IN  IF ps = {} THEN NULL
      ELSE MatchAt(s, CHOOSE p \in ps : \A q \in ps : p <= q)

(***************************************************************************)
(* Literals of the program                                                 *)
(***************************************************************************)
SYSTEM_PROMPT == <<"You are a helpful assistant that ONLY answers questions about L'Oreal products, routines, and related beauty topics ...">>
initialText == <<"Hello! How can I help you with L'Oreal products or routines today?">>
MODEL == "gpt-4o"
MAX_TOKENS == 600
ENDPOINT == "https://api.openai.com/v1/chat/completions"
KeyMissingMessage == <<"OpenAI API key not found. Create secrets.js and define OPENAI_API_KEY.">>
NoContentMessage == <<"No content in API response.">>

\* a Turn of the conversation: an element of messages
Turn(role, content) == [role |-> role, content |-> content]

\* `User's name is ${userName}.`
NameNote(name) == <<"User's name is ">> \o name \o <<".">>

\* `API error: ${resp.status} ${errText}`
ApiErrorMessage(status, errText) ==
  <<"API error: ">> \o <<ToString(status)>> \o <<" ">> \o errText

\* `Error: ${err.message}`
ErrorText(message) == <<"Error: ">> \o message

(***************************************************************************)
(* The environment: what the user types, what secrets.js defines and what  *)
(* the network answers                                                     *)
(***************************************************************************)
T_Blank == <<" ", "\t">>
T_Hi == <<" ", "H", "i", " ">>
T_Name == <<"I", " ", "a", "m", " ", "B", "o">>
T_Alex == <<"M","y"," ","n","a","m","e"," ","i","s"," ","A","l","e","x",",",
            " ","h","i">>
T_Looking == <<"I"," ","a","m"," ","l","o","o","k","i","n","g"," ","f","o","r",
               " ","s","h","a","m","p","o","o">>
T_NoBoundary == <<"I", "'", "m", " ", "A", "l", "9">>
\* the texts the user may leave in the input field
Inputs == {T_Blank, T_Hi, T_Name, T_Alex, T_Looking, T_NoBoundary}

\* what secrets.js may provide: nothing, an empty key, a key
Secrets == {[defined |-> FALSE, key |-> <<>>],
            [defined |-> TRUE,  key |-> <<>>],
            [defined |-> TRUE,  key |-> <<"sk-test-key">>]}

\* the status codes the service answers with
Statuses == {200, 500}
\* the bodies of an error answer
ErrorBodies == {<<"server error">>}
\* the parsed bodies of a success answer: choices is a list of choices, a
\* choice has a message content or none
Datas == {[choices |-> <<>>],
          [choices |-> <<[has |-> FALSE, content |-> <<>>]>>],
          [choices |-> <<[has |-> TRUE, content |-> <<>>]>>],
          [choices |-> <<[has |-> TRUE, content |-> <<"Hi there!">>]>>]}
\* the messages of the errors the platform throws
FetchFailedMessage == <<"Failed to fetch">>
BodyReadMessage == <<"Failed to read the response body">>
JsonParseMessage == <<"Unexpected token < in JSON at position 0">>

(***************************************************************************)
(* State                                                                   *)
(***************************************************************************)
VARIABLES
  secrets,     \* what secrets.js defined: OPENAI_API_KEY
  messages,    \* the conversation sent to the service
  userName,    \* the captured name, or NULL
  inputValue,  \* userInput.value
  disabled,    \* userInput.disabled
  chatWindow,  \* the children of chatWindow, in document order
  console,     \* the entries written to the console
  requests,    \* the requests handed to fetch, in order
  handlers,    \* the invocations of the submit handler suspended at an await
  submits,     \* the number of submit events dispatched so far
  lastValue,   \* userInput.value as the latest submit event found it
  done,        \* how each invocation that ran past the empty check ended
  escaped      \* the number of errors that left the submit handler uncaught

vars == <<secrets, messages, userName, inputValue, disabled, chatWindow,
          console, requests, handlers, submits, lastValue, done, escaped>>

\* a fault of push: the turn is put in front
push_Unshift(msgs, turn) == <<turn>> \o msgs

\* messages.push(turn)
push(msgs, turn) == Append(msgs, turn)

\* a fault of the check: an empty key counts as present
OPENAI_KEY_PRESENT_DefinedOnly == secrets.defined

\* typeof OPENAI_API_KEY !== "undefined" && !!OPENAI_API_KEY
OPENAI_KEY_PRESENT == secrets.defined /\ secrets.key # <<>>

(***************************************************************************)
(* The chat window                                                         *)
(***************************************************************************)
\* an element of the chat window; node tells the thinking indicators apart
Element(cls, name, text, node) ==
  [cls |-> cls, name |-> name, text |-> text, node |-> node]

\* the sequence s without the elements that satisfy Drop
RECURSIVE Without(_, _)
Without(s, drop) ==
  IF s = <<>> THEN <<>>
  ELSE IF Head(s) \in drop THEN Without(Tail(s), drop)
       ELSE <<Head(s)>> \o Without(Tail(s), drop)

\* a fault of appendMessage: the bubble is put first
appendMessage_Prepend(cw, text, className, name) ==
  <<Element("msg " \o className, name, text, 0)>> \o cw

\* appendMessage(text, className, {name}): name is NULL when no meta.name
appendMessage(cw, text, className, name) ==
  Append(cw, Element("msg " \o className, name, text, 0))

\* showLatestQuestion(text)
showLatestQuestion(cw, text) ==
  LET latest == {i \in 1..Len(cw) : cw[i].cls = "latest-question"}
      first  == IF latest = {} THEN {}
                ELSE {cw[CHOOSE i \in latest : \A j \in latest : i <= j]}
  IN  Append(Without(cw, first),
             Element("latest-question", NULL, <<"Latest question: ">> \o text, 0))

\* the thinking indicator of the invocation id
Thinking(id) == Element("msg ai thinking", NULL, <<"...thinking">>, id)

\* a fault of the removal: the indicator stays
RemoveThinking_Keep(cw, id) == cw

\* thinking.remove()
RemoveThinking(cw, id) == Without(cw, {Thinking(id)})

(***************************************************************************)
(* The submit handler                                                      *)
(***************************************************************************)
\* a fault of the body: only the latest message is sent
RequestBody_LastOnly(msgs) ==
  [model |-> MODEL, messages |-> <<msgs[Len(msgs)]>>, max_tokens |-> MAX_TOKENS]

\* the body passed to fetch: JSON.stringify of the model, messages, max_tokens
RequestBody(msgs) == [model |-> MODEL, messages |-> msgs, max_tokens |-> MAX_TOKENS]

\* the call of fetch
Request(msgs) ==
  [url |-> ENDPOINT, method |-> "POST",
   authorization |-> <<"Bearer ">> \o secrets.key,
   body |-> RequestBody(msgs)]

\* a fault of the catch block: the error is not rendered
CatchWindow_Silent(cw, id, message) == RemoveThinking(cw, id)

\* the catch block, for an error with the given message, on a chat window cw
CatchWindow(cw, id, message) ==
  appendMessage(RemoveThinking(cw, id), ErrorText(message), "ai", NULL)

\* console.error(err)
CatchConsole(message) ==
  Append(console, [level |-> "error", text |-> message])

\* a fault of the catch block: the error is pushed as an assistant Turn
CatchMessages_Push(msgs, message) ==
  push(msgs, Turn("assistant", ErrorText(message)))

\* the messages after the catch block, which pushes nothing
CatchMessages(msgs, message) == msgs

\* a fault of the finally block: the input field stays disabled
FinallyDisabled_Stuck == TRUE

\* the finally block
FinallyDisabled == FALSE

\* catch and finally of the invocation h, suspended at an await
Fail(h, kind, message) ==
  /\ chatWindow' = CatchWindow(chatWindow, h.id, message)
  /\ console' = CatchConsole(message)
  /\ messages' = CatchMessages(messages, message)
  /\ disabled' = FinallyDisabled
  /\ handlers' = handlers \ {h}
  /\ done' = Append(done, [id |-> h.id, kind |-> kind])
  /\ UNCHANGED <<secrets, userName, inputValue, requests, submits, lastValue,
                 escaped>>

\* a fault of the handler: the input field keeps its text
ClearedInput_Keep(text) == text

\* the value the input field is left with by the handler
ClearedInput(text) == <<>>

\* a fault of the handler: the name note is pushed after the user's message
SubmitMessages_UserFirst(msgs, text, nm) ==
  LET said == push(msgs, Turn("user", text))
  IN  IF nm # NULL THEN push(said, Turn("system", NameNote(nm))) ELSE said

\* a fault of the handler: the name note is pushed whether a name was
\* captured or not
SubmitMessages_AlwaysNote(msgs, text, nm) ==
  push(push(msgs, Turn("system", NameNote(nm))), Turn("user", text))

\* the messages once the handler has pushed the name note, if a name was
\* captured, and the user's message
SubmitMessages(msgs, text, nm) ==
  LET noted == IF nm # NULL THEN push(msgs, Turn("system", NameNote(nm)))
               ELSE msgs
  IN  push(noted, Turn("user", text))

\* a fault of the handler: the input field is left enabled while waiting
BusyDisabled_Off == FALSE

\* userInput.disabled while the handler waits for the reply
BusyDisabled == TRUE

\* the handler from its entry to its first await, or to its end
Submit ==
  /\ submits < MaxSubmits
  /\ submits' = submits + 1
  /\ lastValue' = inputValue
  /\ LET text == trim(inputValue)
         id   == submits + 1
     IN  IF text = <<>>
         THEN UNCHANGED <<secrets, messages, userName, inputValue, disabled,
                          chatWindow, console, requests, handlers, done,
                          escaped>>
         ELSE
           LET nm   == nameMatch(text)
               un   == IF nm # NULL THEN nm ELSE userName
               m2   == SubmitMessages(messages, text, nm)
               c1   == appendMessage(chatWindow, text, "user",
                                     IF un # NULL THEN un ELSE <<"You">>)
               c2   == showLatestQuestion(c1, text)
               c3   == Append(c2, Thinking(id))
           IN  /\ userName' = un
               /\ inputValue' = ClearedInput(text)
               /\ UNCHANGED <<secrets, escaped>>
               /\ IF ~OPENAI_KEY_PRESENT
                  THEN /\ chatWindow' = CatchWindow(c3, id, KeyMissingMessage)
                       /\ console' = CatchConsole(KeyMissingMessage)
                       /\ messages' = CatchMessages(m2, KeyMissingMessage)
                       /\ disabled' = FinallyDisabled
                       /\ done' = Append(done, [id |-> id,
                                                kind |-> "MissingCredential"])
                       /\ UNCHANGED <<requests, handlers>>
                  ELSE /\ chatWindow' = c3
                       /\ messages' = m2
                       /\ disabled' = BusyDisabled
                       /\ requests' = Append(requests, Request(m2))
                       /\ handlers' = handlers \cup
                                        {[id |-> id, at |-> "fetch", status |-> 0]}
                       /\ UNCHANGED <<console, done>>

\* the user edits the input field, which a disabled field does not allow
Type ==
  /\ ~disabled
  /\ \E t \in Inputs : t # inputValue /\ inputValue' = t
  /\ UNCHANGED <<secrets, messages, userName, disabled, chatWindow, console,
                 requests, handlers, submits, lastValue, done, escaped>>

\* fetch rejects: the request did not reach the service
FetchReject ==
  \E h \in handlers :
    /\ h.at = "fetch"
    /\ Fail(h, "TransportFailure", FetchFailedMessage)

\* resp.ok
Ok(status) == status >= 200 /\ status <= 299

\* fetch resolves with a response: the handler goes on to read its body
FetchResolve ==
  \E h \in handlers, status \in Statuses :
    /\ h.at = "fetch"
    /\ handlers' = (handlers \ {h}) \cup
         {[h EXCEPT !.at = IF Ok(status) THEN "json" ELSE "text",
                    !.status = status]}
    /\ UNCHANGED <<secrets, messages, userName, inputValue, disabled,
                   chatWindow, console, requests, submits, lastValue, done,
                   escaped>>

\* resp.text() resolves: the handler throws the API error
TextResolve ==
  \E h \in handlers, errText \in ErrorBodies :
    /\ h.at = "text"
    /\ Fail(h, "NonSuccessStatus", ApiErrorMessage(h.status, errText))

\* resp.text() rejects
TextReject ==
  \E h \in handlers :
    /\ h.at = "text"
    /\ Fail(h, "BodyReadFailure", BodyReadMessage)

\* resp.json() rejects
JsonReject ==
  \E h \in handlers :
    /\ h.at = "json"
    /\ Fail(h, "BodyReadFailure", JsonParseMessage)

\* data?.choices?.[0]?.message?.content, NULL when undefined
aiContentOf(data) ==
  IF Len(data.choices) = 0 THEN NULL
  ELSE IF ~data.choices[1].has THEN NULL
       ELSE data.choices[1].content

\* a fault of the check: any content passes
NoContent_Never(aiContent) == FALSE

\* !aiContent
NoContent(aiContent) == aiContent = <<>>

\* resp.json() resolves: the reply is rendered and recorded, or has no content
JsonResolve ==
  \E h \in handlers, data \in Datas :
    /\ h.at = "json"
    /\ LET aiContent == aiContentOf(data)
       IN  IF NoContent(aiContent)
           THEN Fail(h, "MalformedResponse", NoContentMessage)
           ELSE /\ chatWindow' = appendMessage(RemoveThinking(chatWindow, h.id),
                                               aiContent, "ai", NULL)
                /\ messages' = push(messages, Turn("assistant", aiContent))
                /\ disabled' = FinallyDisabled
                /\ handlers' = handlers \ {h}
                /\ done' = Append(done, [id |-> h.id, kind |-> "ok"])
                /\ UNCHANGED <<secrets, userName, inputValue, console,
                               requests, submits, lastValue, escaped>>

\* a fault of the log: the key is written, not whether it is there
PresenceLog_Value ==
  [level |-> "log", text |-> <<"OPENAI_API_KEY:">> \o secrets.key]

\* console.log("OPENAI_API_KEY present:", OPENAI_KEY_PRESENT)
PresenceLog ==
  [level |-> "log",
   text |-> <<"OPENAI_API_KEY present:",
              IF OPENAI_KEY_PRESENT THEN "true" ELSE "false">>]

\* the state once the script has run: the greeting is rendered and recorded
Init ==
  /\ secrets \in Secrets
  /\ messages = push(<<Turn("system", SYSTEM_PROMPT)>>,
                      Turn("assistant", initialText))
  /\ userName = NULL
  /\ inputValue = <<>>
  /\ disabled = FALSE
  /\ chatWindow = appendMessage(<<>>, initialText, "ai", NULL)
  /\ console = <<PresenceLog>>
  /\ requests = <<>>
  /\ handlers = {}
  /\ submits = 0
  /\ lastValue = <<>>
  /\ done = <<>>
  /\ escaped = 0

Next ==
  \/ Type
  \/ Submit
  \/ FetchReject
  \/ FetchResolve
  \/ TextResolve
  \/ TextReject
  \/ JsonReject
  \/ JsonResolve

Spec == Init /\ [][Next]_vars

(***************************************************************************)
(* Vocabulary of the properties                                            *)
(***************************************************************************)
\* the number of Turns of a role in a transcript
RoleCount(msgs, role) == Cardinality({i \in 1..Len(msgs) : msgs[i].role = role})

\* s is a prefix of t
IsPrefix(s, t) == Len(s) <= Len(t) /\ SubSeq(t, 1, Len(s)) = s

\* text is empty or whitespace only
IsBlank(text) == \A i \in 1..Len(text) : text[i] \in Whitespace

\* the step is a submit event
Submitted == submits' = submits + 1

\* the step is a submit event with a text that is not blank: a cycle starts
Started == Submitted /\ ~IsBlank(inputValue)

\* the step ends a cycle
Resolved == Len(done') = Len(done) + 1

\* the kind of end of the cycle the step ends
ResolvedKind == done'[Len(done')].kind

\* the kinds of failure of a cycle
FailureKinds == {"MissingCredential", "TransportFailure", "NonSuccessStatus",
                 "BodyReadFailure", "MalformedResponse"}

\* 1 if b, else 0
Num(b) == IF b THEN 1 ELSE 0

\* the last element of a non-empty sequence
Last(s) == s[Len(s)]

\* the message bubbles of a chat window: what appendMessage added
Bubbles(cw) == SelectSeq(cw, LAMBDA e : e.cls \in {"msg ai", "msg user"})

FailureMessages(kind) ==
  CASE kind = "MissingCredential" -> {KeyMissingMessage}
    [] kind = "TransportFailure"  -> {FetchFailedMessage}
    [] kind = "NonSuccessStatus"  ->
         {<<"API error: ", ToString(st), " ">> \o b :
            st \in {x \in Statuses : x < 200 \/ x > 299}, b \in ErrorBodies}
    [] kind = "BodyReadFailure"   -> {BodyReadMessage, JsonParseMessage}
    [] kind = "MalformedResponse" -> {NoContentMessage}

C3_OneCycleInFlight ==
  /\ [](/\ Cardinality(handlers) <= 1
        /\ Len(requests) <= Len(done) + 1
        /\ (handlers # {} => disabled /\ inputValue = <<>>))
  /\ [][handlers # {} /\ Submitted =>
          /\ messages' = messages
          /\ requests' = requests
          /\ handlers' = handlers
          /\ chatWindow' = chatWindow]_vars

\* a submit event was dispatched while the invocation of an earlier one was
\* suspended
C3_Witness ==
  \E h \in handlers : h.id < submits /\ Len(requests) = 1

(***************************************************************************)
(* C4                                                                      *)
(***************************************************************************)
\* reading the body of a response ends, with the body or with an error
BodyRead == TextResolve \/ TextReject \/ JsonReject \/ JsonResolve

\* the behaviours in which the body of every response is eventually read
FairSpec == Spec /\ WF_vars(BodyRead)

\* C4: whenever no invocation is suspended the input field is enabled; every
\* end of a cycle, success or failure, missing credential included, leaves
\* the field enabled and nothing suspended; once fetch has resolved with a
\* response the handler eventually gets there; and a submission of a
\* non-blank text made then starts a new cycle.
C4_ReturnsToIdle ==
  /\ [](handlers = {} => ~disabled)
  /\ [][Resolved => ~disabled' /\ handlers' = {}]_vars
  /\ [][handlers = {} /\ Started =>
          /\ RoleCount(messages', "user") = RoleCount(messages, "user") + 1
          /\ Len(done') + Cardinality(handlers') = Len(done) + 1]_vars
  /\ ((\E h \in handlers : h.at \in {"text", "json"})
        ~> (handlers = {} /\ ~disabled))

\* a cycle has failed and a later submission has started a new cycle
C4_Witness ==
  \E i \in 1..Len(done) :
    /\ done[i].kind \in FailureKinds
    /\ \E h \in handlers : h.id > done[i].id

(***************************************************************************)
(* C5                                                                      *)
(***************************************************************************)
\* C5: messages always starts with the system instruction followed by the
\* greeting, and every step leaves the Turns it held in place: the old
\* messages is a prefix of the new.
C5_AppendOnly ==
  /\ [](/\ Len(messages) >= 2
        /\ messages[1] = [role |-> "system", content |-> SYSTEM_PROMPT]
        /\ messages[2] = [role |-> "assistant", content |-> initialText])
  /\ [][IsPrefix(messages, messages')]_vars

\* messages has grown by a name note, a user Turn and a reply
C5_Witness ==
  /\ Len(messages) >= 5
  /\ \E i \in 3..Len(messages) : messages[i].role = "system"
  /\ \E i \in 3..Len(messages) : messages[i].role = "assistant"

(***************************************************************************)
(* C6                                                                      *)
(***************************************************************************)
\* C6: a submission whose text matches the name pattern appends the system
\* Turn "User's name is X.", X the capture, and right after it the user Turn
\* of the submission; a submission that does not match appends its user Turn
\* alone; no other step adds a system Turn.
C6_NameNoteBeforeUser ==
  [][/\ (Started =>
           LET text == trim(inputValue)
               nm   == nameMatch(text)
               note == [role |-> "system",
                        content |-> <<"User's name is ">> \o nm \o <<".">>]
               said == [role |-> "user", content |-> text]
           IN  /\ nm # NULL =>
                    /\ SubSeq(messages', 1, Len(messages) + 2) =
                         messages \o <<note, said>>
                    /\ RoleCount(messages', "system") =
                         RoleCount(messages, "system") + 1
                    /\ userName' = nm
               /\ nm = NULL =>
                    /\ SubSeq(messages', 1, Len(messages) + 1) =
                         messages \o <<said>>
                    /\ RoleCount(messages', "system") =
                         RoleCount(messages, "system")
                    /\ userName' = userName)
     /\ (~Started =>
           RoleCount(messages', "system") = RoleCount(messages, "system"))]_vars

\* the note of the name Bo stands right before the user Turn that gave it
C6_Witness ==
  \E i \in 3..Len(messages) - 1 :
    /\ messages[i] = [role |-> "system",
                      content |-> <<"User's name is ", "B", "o", ".">>]
    /\ messages[i + 1] = [role |-> "user", content |-> T_Name]

(***************************************************************************)
(* C7                                                                      *)
(***************************************************************************)
\* an upper-case letter followed by lower-case letters
Capitalized(w) ==
  /\ Len(w) >= 2
  /\ w[1] \in Upper
  /\ \A k \in 2..Len(w) : w[k] \in Lower

\* C7: the name that is recorded, and the name of every name note, is a
\* capitalized word.
C7_CapitalizedOnly ==
  /\ userName = NULL \/ Capitalized(userName)
  /\ \A i \in 3..Len(messages) :
       messages[i].role = "system" =>
         Capitalized(SubSeq(messages[i].content, 2, Len(messages[i].content) - 1))

(***************************************************************************)
(* C8                                                                      *)
(***************************************************************************)
\* secrets.js defined no key, or an empty one
CredentialAbsent == ~secrets.defined \/ secrets.key = <<>>

\* C8: without a credential no request is ever handed to fetch and no
\* invocation is ever suspended; a submission of a non-blank text appends its
\* user Turn, ends in the same step with the missing-key error on display,
\* and leaves the input field enabled.
C8_NoCallWithoutCredential ==
  /\ [](CredentialAbsent => requests = <<>> /\ handlers = {} /\ ~disabled)
  /\ [][CredentialAbsent /\ Started =>
          /\ Last(messages') = [role |-> "user", content |-> trim(inputValue)]
          /\ RoleCount(messages', "user") = RoleCount(messages, "user") + 1
          /\ Resolved /\ ResolvedKind = "MissingCredential"
          /\ Last(chatWindow').text =
               <<"Error: ",
                 "OpenAI API key not found. Create secrets.js and define OPENAI_API_KEY.">>
          /\ requests' = <<>>
          /\ ~disabled']_vars

\* without a credential, "Hi" was submitted and its cycle is over
C8_Witness ==
  /\ CredentialAbsent
  /\ Len(done) >= 1
  /\ \E i \in 3..Len(messages) :
       messages[i] = [role |-> "user", content |-> <<"H", "i">>]

(***************************************************************************)
(* C9                                                                      *)
(***************************************************************************)
\* C9: a submit event that finds an empty or whitespace-only text changes
\* nothing: not messages, the name, the input field, the chat window, the
\* console, the requests, the suspended invocations.
C9_BlankNoOp ==
  [][Submitted /\ IsBlank(inputValue) =>
       UNCHANGED <<messages, userName, inputValue, disabled, chatWindow,
                   console, requests, handlers, done, escaped>>]_vars

\* a whitespace-only text was submitted
C9_Witness == submits >= 1 /\ lastValue = T_Blank

(***************************************************************************)
(* C10                                                                     *)
(***************************************************************************)
\* C10: with a credential, every cycle hands exactly one request to fetch,
\* and the body of that request holds the model "gpt-4o", the cap 600 and
\* messages as it is at that moment: all that it held before, in order,
\* with the user Turn of this submission as its last element; no other step
\* issues a request.
C10_FullTranscript ==
  /\ [](~CredentialAbsent =>
          Len(requests) = Len(done) + Cardinality(handlers))
  /\ [][/\ (Started /\ ~CredentialAbsent =>
              /\ Len(requests') = Len(requests) + 1
              /\ Last(requests').body =
                   [model |-> "gpt-4o", messages |-> messages',
                    max_tokens |-> 600]
              /\ IsPrefix(messages, messages')
              /\ Last(messages') =
                   [role |-> "user", content |-> trim(inputValue)])
        /\ (~Started => requests' = requests)
        /\ IsPrefix(requests, requests')]_vars

\* the second request carries the name note and the reply of the first cycle
C10_Witness ==
  /\ Len(requests) = 2
  /\ \E i \in 3..Len(requests[2].body.messages) :
       requests[2].body.messages[i].role = "system"
  /\ \E i \in 3..Len(requests[2].body.messages) :
       requests[2].body.messages[i].role = "assistant"

(***************************************************************************)
(* C11                                                                     *)
(***************************************************************************)
\* the non-empty text k occurs in the text t
Occurs(k, t) ==
  /\ k # <<>>
  /\ \E i \in 0..Len(t) - Len(k) : SubSeq(t, i + 1, i + Len(k)) = k

\* C11: the key is in the Authorization header of every request, after
\* "Bearer ", and nowhere else: no Turn of messages, no element of the chat
\* window and no console entry holds it, and the first console entry tells
\* only whether a key is there.
C11_KeyOnlyInHeader ==
  /\ \A i \in 1..Len(requests) :
       requests[i].authorization = <<"Bearer ">> \o secrets.key
  /\ \A i \in 1..Len(messages) : ~Occurs(secrets.key, messages[i].content)
  /\ \A i \in 1..Len(chatWindow) :
       /\ ~Occurs(secrets.key, chatWindow[i].text)
       /\ ~Occurs(secrets.key, chatWindow[i].name)
  /\ \A i \in 1..Len(console) : ~Occurs(secrets.key, console[i].text)
  /\ console[1].level = "log"
  /\ console[1].text \in {<<"OPENAI_API_KEY present:", "true">>,
                          <<"OPENAI_API_KEY present:", "false">>}
  /\ (console[1].text[2] = "true") = ~CredentialAbsent
  /\ ~Occurs(secrets.key, userName)

\* the key went out in a request, and the failure of a cycle was rendered
\* and logged
C11_Witness ==
  /\ ~CredentialAbsent
  /\ Len(requests) >= 1
  /\ Last(requests).authorization = <<"Bearer ", "sk-test-key">>
  /\ Len(console) >= 2
  /\ Last(console).level = "error"

(***************************************************************************)
(* C12                                                                     *)
(***************************************************************************)
\* C12: every user Turn and every assistant Turn of messages has a content
\* that is not empty, and the content of a user Turn neither starts nor ends
\* with whitespace; a reply without content, or with the empty string, ends
\* its cycle as a failure and adds no Turn.
C12_NonEmptyContent ==
  /\ [](\A i \in 1..Len(messages) :
          /\ messages[i].role \in {"user", "assistant"} =>
               messages[i].content # <<>>
          /\ messages[i].role = "user" =>
               /\ Head(messages[i].content) \notin Whitespace
               /\ Last(messages[i].content) \notin Whitespace)
  /\ [][Resolved /\ ResolvedKind = "MalformedResponse" =>
          messages' = messages]_vars
  /\ [][Started => Last(messages').role = "user"
                   /\ ~IsBlank(Last(messages').content)]_vars

\* a reply without content has ended a cycle and left the greeting the only
\* assistant Turn
C12_Witness ==
  /\ \E i \in 1..Len(done) : done[i].kind = "MalformedResponse"
  /\ RoleCount(messages, "assistant") = 1
  /\ \E i \in 3..Len(messages) :
       messages[i] = [role |-> "user", content |-> <<"H", "i">>]

(***************************************************************************)
(* C13                                                                     *)
(***************************************************************************)
\* C13 as stated: messages starts with two Turns, grows by exactly one Turn
\* at a submission of a non-blank text and by at most one more at the end of
\* the cycle; after n cycles its length is between 2 + n and 2 + 2n.
C13_Original ==
  /\ [](handlers = {} =>
          /\ Len(messages) >= 2 + Len(done)
          /\ Len(messages) <= 2 + 2 * Len(done))
  /\ [][/\ (Started =>
              Len(messages') <= Len(messages) + 1 + Num(Resolved))
        /\ (Started => Len(messages') >= Len(messages) + 1)]_vars

\* C13 amended: messages starts with two Turns; a submission of a non-blank
\* text adds one Turn, or two when a name is captured (the name note and the
\* user Turn); the end of the cycle adds at most one more; no other step
\* changes the length.  After n cycles the length is between 2 + n and
\* 2 + 3n.
C13_Amended ==
  /\ [](/\ (submits = 0 => Len(messages) = 2)
        /\ Len(messages) >= 2 + Len(done) + Cardinality(handlers)
        /\ Len(messages) <= 2 + 3 * Len(done) + 2 * Cardinality(handlers))
  /\ [][/\ (Started =>
              Len(messages') = Len(messages) + 1
                + Num(nameMatch(trim(inputValue)) # NULL))
        /\ (~Started /\ Resolved =>
              /\ Len(messages') >= Len(messages)
              /\ Len(messages') <= Len(messages) + 1)
        /\ (~Started /\ ~Resolved => Len(messages') = Len(messages))]_vars

\* one cycle, with a name and a reply, has brought messages to 2 + 3 Turns
C13_Witness ==
  /\ Len(done) = 1
  /\ handlers = {}
  /\ Len(messages) = 5

(***************************************************************************)
(* C14                                                                     *)
(***************************************************************************)
\* C14: while an invocation waits for fetch or for the body of the response
\* the input field is disabled; the only steps that enable it again are the
\* steps that end the cycle, and the only steps open to a waiting cycle are
\* the resolutions of what it waits for: submit events, which change nothing
\* then, are all that can happen besides.
C14_BusyUntilResolved ==
  /\ [](handlers # {} => disabled)
  /\ [][disabled /\ ~disabled' => Resolved /\ handlers' = {}]_vars
  /\ [][(\E h \in handlers : h.at = "fetch") =>
          \/ \E h \in handlers, k \in handlers' :
               /\ h.at = "fetch"
               /\ k.id = h.id
               /\ k.at \in {"text", "json"}
               /\ disabled'
          \/ Resolved /\ ResolvedKind = "TransportFailure"
          \/ /\ Submitted
             /\ UNCHANGED <<handlers, disabled, done, messages, requests>>]_vars

\* after one cycle has ended a second request is out and the field is
\* disabled
C14_Witness ==
  /\ Len(done) >= 1
  /\ \E h \in handlers : h.at = "fetch"
  /\ disabled
  /\ Len(requests) = 2

(***************************************************************************)
(* C15                                                                     *)
(***************************************************************************)
\* no invocation is suspended and the input field is enabled
Idle == handlers = {} /\ ~disabled

\* the role and the text a message bubble shows
Shown(e) == [role |-> IF e.cls = "msg user" THEN "user" ELSE "assistant",
             content |-> e.text]

\* the message bubbles of the chat window as Turns, in order
ShownTurns(cw) ==
  LET bs == Bubbles(cw)
  IN  [i \in 1..Len(bs) |-> Shown(bs[i])]

\* an error bubble: its text starts with the literal of the catch block,
\* which no other text of the model starts with
IsErrorBubble(e) ==
  e.cls = "msg ai" /\ e.text # <<>> /\ Head(e.text) = "Error: "

Spoken(msgs) == SelectSeq(msgs, LAMBDA t : t.role # "system")

\* the places where two Turns of the same role follow each other
Repeats(msgs, role) ==
  {i \in 1..Len(msgs) - 1 : msgs[i].role = role /\ msgs[i + 1].role = role}

\* the roles alternate, from an assistant Turn to a user Turn
Alternates(msgs) ==
  /\ msgs # <<>>
  /\ Head(msgs).role = "assistant"
  /\ Last(msgs).role = "user"
  /\ \A i \in 1..Len(msgs) - 1 : msgs[i].role # msgs[i + 1].role

ThinkingAt(cw) == {i \in 1..Len(cw) : cw[i].cls = "msg ai thinking"}

\* C17: the chat window holds a thinking indicator exactly when an
\* invocation is suspended, never more than one, and then as its last
\* child and with the input field disabled; the step that ends a cycle
\* leaves none, with the reply or the error as the last child and the input
\* field enabled.
C17_ThinkingTracksBusy ==
  /\ [](/\ Cardinality(ThinkingAt(chatWindow)) = Cardinality(handlers)
        /\ Cardinality(ThinkingAt(chatWindow)) <= 1
        /\ (ThinkingAt(chatWindow) # {} =>
              /\ disabled
              /\ ThinkingAt(chatWindow) = {Len(chatWindow)}
              /\ \E h \in handlers : Last(chatWindow).node = h.id)
        /\ (~disabled => ThinkingAt(chatWindow) = {}))
  /\ [][Resolved =>
          /\ ThinkingAt(chatWindow') = {}
          /\ Last(chatWindow').cls = "msg ai"
          /\ Len(Bubbles(chatWindow')) > Len(Bubbles(chatWindow))
          /\ ~disabled']_vars

\* a cycle has ended, its indicator is gone, and the indicator of the next
\* cycle is on display
C17_Witness ==
  /\ Len(done) >= 1
  /\ ThinkingAt(chatWindow) # {}
  /\ \E i \in 1..Len(chatWindow) : chatWindow[i].cls = "msg ai"
                                   /\ i > 1

====
